---- MODULE Spec2Model ----
(***************************************************************************)
(* The "AI Doctor with Vision and Voice" Streamlit application, app.py.    *)
(*                                                                         *)
(* A browser session owns a key-value session state (st.session_state)     *)
(* and the value held by the image widget.  Every user interaction runs    *)
(* the script main() from the top: the recording section, the image        *)
(* section, the Analyze section (which calls process_inputs), the results  *)
(* section and the Clear Cache section.  process_inputs is modelled one    *)
(* external call per step; the other interactions are one step each.       *)
(* All sessions share one file system.                                     *)
(***************************************************************************)
EXTENDS Integers, Sequences, FiniteSets, TLC

VARIABLES
    active,         \* the connected browser sessions (fixed during a behaviour)
    session_state,  \* st.session_state of each session: key -> value
    widget_file,    \* the widget of the selected input method that holds a
                    \* file ("uploaded_image" or "camera_image"), or None
    fs,             \* the file system: path -> session that wrote the content
    next_tmp,       \* number of temporary files created so far
    pc,             \* position of each session's script run
    frame,          \* locals of the running process_inputs call
    rendered,       \* what the session's last script run displayed
    crashed,        \* the last script run ended with an unhandled exception
    last_run        \* the triple returned by the last process_inputs call

vars == <<active, session_state, widget_file, fs, next_tmp, pc,
          frame, rendered, crashed, last_run>>

----------------------------------------------------------------------------
(* Bounds *)

\* temporary image files that may be created in one behaviour
MaxTmp == 3

----------------------------------------------------------------------------
(* Values *)

SessionIds == {1, 2}

None == "<None>"
Raise == "<raise>"

system_prompt == "You have to act as a professional doctor, i know you are not but this is for learning purpose. [...] No preamble, start your answer right away please"

NoImage == "No image provided for me to analyze"
ErrTranscribe == "Error transcribing audio"
ErrAnalyze == "Error analyzing image"

RecordedFile == "recorded_audio.mp3"
VoiceFile == "doctor_response.mp3"

stt_model == "whisper-large-v3"
vision_model == "meta-llama/llama-4-scout-17b-16e-instruct"

\* the two image widgets: st.file_uploader under "Upload Image" and
\* st.camera_input under "Take Photo"
Widgets == {"uploaded_image", "camera_image"}

\* what the speech-to-text service may return (empty for silent audio)
Transcripts == {"", "my skin itches"}

\* what the vision model may return: free text, not validated by the client
Replies == {"", "With what I see, I think you have a rash", NoImage}

\* outcomes of the image section of a script run
ImageOutcomes == {"saved", "IOError", "bad_image"}

\* Python truthiness of an optional string
Truthy(v) == v # None /\ v # ""

\* getattr(st.session_state, k, None)
Get(ss, k) == IF k \in DOMAIN ss THEN ss[k] ELSE None

\* st.session_state.k = v
Set(ss, k, v) == [x \in DOMAIN ss \cup {k} |-> IF x = k THEN v ELSE ss[x]]

\* the session state with no key
EmptyState == [k \in {} |-> None]

\* os.path.exists(path)
Exists(files, path) == path \in DOMAIN files

\* a file written at path by session s
WriteFile(files, path, s) ==
    [p \in DOMAIN files \cup {path} |-> IF p = path THEN s ELSE files[p]]

\* A variant that saves every image under one fixed name
TmpName_Fixed(n) == "/tmp/uploaded_image.jpg"

\* tempfile.NamedTemporaryFile(delete=False, suffix='.jpg').name: a fresh name
TmpName(n) == "/tmp/tmp" \o ToString(n) \o ".jpg"

NoRun == <<>>

EmptyFrame ==
    [audio_filepath |-> None, image_filepath |-> None,
     speech_to_text_output |-> "", doctor_response |-> None,
     voice_filepath |-> None,
     audio_present |-> FALSE, image_present |-> FALSE,
     calls |-> <<>>]

Blank == [audio |-> FALSE, warning |-> FALSE, record_error |-> FALSE]

----------------------------------------------------------------------------
(* Helpers of the script *)

\* save_uploaded_image: writes the widget's bytes to a fresh temporary file
save_uploaded_image(files, tmp, s) ==
    [path  |-> TmpName(tmp + 1),
     files |-> WriteFile(files, TmpName(tmp + 1), s),
     tmp   |-> tmp + 1]

\* The image section of main(): when the selected widget holds a file it is
\* saved again on every script run and its path stored in the session state.
\* Nothing here is inside a try block: an IOError of save_uploaded_image, or
\* an error of Image.open on the "Upload Image" branch, ends the script run.
ImageSection(s, w, ss, files, tmp, out) ==
    IF w = None
    THEN [ss |-> ss, files |-> files, tmp |-> tmp, raised |-> FALSE]
    ELSE IF out = "IOError"
    THEN [ss |-> ss, files |-> files, tmp |-> tmp, raised |-> TRUE]
    ELSE LET saved == save_uploaded_image(files, tmp, s) IN
         IF out = "bad_image" /\ w = "uploaded_image"
         THEN [ss |-> ss, files |-> saved.files, tmp |-> saved.tmp,
               raised |-> TRUE]
         ELSE [ss |-> Set(ss, "image_filepath", saved.path),
               files |-> saved.files, tmp |-> saved.tmp, raised |-> FALSE]

\* The results section: the audio player and the download button are shown
\* when voice_filepath is set, truthy, and the file exists.
ShowAudio(ss, files) ==
    /\ "voice_filepath" \in DOMAIN ss
    /\ Truthy(ss["voice_filepath"])
    /\ Exists(files, ss["voice_filepath"])

Render(ss, files, warn) ==
    [audio |-> ShowAudio(ss, files), warning |-> warn, record_error |-> FALSE]

\* A variant that tests the audio reference alone
NoInputs_AudioOnly(ss) == ~Truthy(Get(ss, "audio_filepath"))

\* The Analyze button's test of the session's capture references
NoInputs(ss) ==
    /\ ~Truthy(Get(ss, "audio_filepath"))
    /\ ~Truthy(Get(ss, "image_filepath"))

\* The Clear Cache loop: del st.session_state[key] for every key
ClearKeys(ss) == EmptyState

\* the image section may create n more temporary files
CanRun(w, n) == w = None \/ next_tmp + n <= MaxTmp

\* The end of a script run of session s that did not call process_inputs
EndRun(s, r, warn) ==
    /\ session_state' = [session_state EXCEPT ![s] = r.ss]
    /\ fs' = r.files
    /\ next_tmp' = r.tmp
    /\ crashed' = [crashed EXCEPT ![s] = r.raised]
    /\ rendered' = [rendered EXCEPT ![s] =
                      IF r.raised THEN Blank ELSE Render(r.ss, r.files, warn)]

----------------------------------------------------------------------------
(* Initial state: no session has interacted yet, no file was written *)

InitCommon ==
    /\ session_state = [s \in SessionIds |-> EmptyState]
    /\ widget_file = [s \in SessionIds |-> None]
    /\ fs = [p \in {} |-> 1]
    /\ next_tmp = 0
    /\ pc = [s \in SessionIds |-> "idle"]
    /\ frame = [s \in SessionIds |-> EmptyFrame]
    /\ rendered = [s \in SessionIds |-> Blank]
    /\ crashed = [s \in SessionIds |-> FALSE]
    /\ last_run = [s \in SessionIds |-> NoRun]

Init == active = {1} /\ InitCommon

----------------------------------------------------------------------------
(* User interactions: each runs the script once *)

\* The user uploads a file or takes a photo with the selected widget.
Upload(s, w, out) ==
    /\ pc[s] = "idle"
    /\ CanRun(w, 1)
    /\ widget_file' = [widget_file EXCEPT ![s] = w]
    /\ EndRun(s, ImageSection(s, w, session_state[s], fs, next_tmp, out),
              FALSE)
    /\ UNCHANGED <<active, pc, frame, last_run>>

\* The user removes the file from the widget, or switches the radio to the
\* other input method, whose widget holds no file; the stored path stays.
RemoveUpload(s) ==
    /\ pc[s] = "idle"
    /\ widget_file[s] # None
    /\ widget_file' = [widget_file EXCEPT ![s] = None]
    /\ EndRun(s, ImageSection(s, None, session_state[s], fs, next_tmp,
                              "saved"), FALSE)
    /\ UNCHANGED <<active, pc, frame, last_run>>

\* A variant that stores the path before record_audio is called
RecordSection_StoreFirst(s, ok, ss, files) ==
    [ss |-> Set(ss, "audio_filepath", RecordedFile),
     files |-> IF ok THEN WriteFile(files, RecordedFile, s) ELSE files]

\* The recording section: record_audio writes recorded_audio.mp3 and the
\* path is stored only after it returned; its exception is caught.
RecordSection(s, ok, ss, files) ==
    IF ok
    THEN [ss |-> Set(ss, "audio_filepath", RecordedFile),
          files |-> WriteFile(files, RecordedFile, s)]
    ELSE [ss |-> ss, files |-> files]

\* "Start Recording": the message "Recording failed" is shown when
\* record_audio raised; the image and results sections follow.
ClickRecord(s, ok, out) ==
    /\ pc[s] = "idle"
    /\ CanRun(widget_file[s], 1)
    /\ LET rec == RecordSection(s, ok, session_state[s], fs)
           r == ImageSection(s, widget_file[s], rec.ss, rec.files, next_tmp,
                             out)
       IN
       /\ session_state' = [session_state EXCEPT ![s] = r.ss]
       /\ fs' = r.files
       /\ next_tmp' = r.tmp
       /\ crashed' = [crashed EXCEPT ![s] = r.raised]
       /\ rendered' = [rendered EXCEPT ![s] =
              [(IF r.raised THEN Blank ELSE Render(r.ss, r.files, FALSE))
                 EXCEPT !.record_error = ~ok]]
    /\ UNCHANGED <<active, widget_file, pc, frame, last_run>>

\* "Analyze": warns when the session holds no capture reference, and
\* otherwise calls process_inputs with the stored references.
ClickAnalyze(s, out) ==
    /\ pc[s] = "idle"
    /\ CanRun(widget_file[s], 1)
    /\ LET r == ImageSection(s, widget_file[s], session_state[s],
                             fs, next_tmp, out) IN
       IF r.raised \/ NoInputs(r.ss)
       THEN /\ EndRun(s, r, ~r.raised)
            /\ UNCHANGED <<pc, frame>>
       ELSE /\ session_state' = [session_state EXCEPT ![s] = r.ss]
            /\ fs' = r.files
            /\ next_tmp' = r.tmp
            /\ pc' = [pc EXCEPT ![s] = "transcribe"]
            /\ frame' = [frame EXCEPT ![s] =
                   [EmptyFrame EXCEPT
                       !.audio_filepath = Get(r.ss, "audio_filepath"),
                       !.image_filepath = Get(r.ss, "image_filepath")]]
            /\ UNCHANGED <<rendered, crashed>>
    /\ UNCHANGED <<active, widget_file, last_run>>

\* "Clear Cache": the script run reaches the button after the image and
\* results sections, deletes every key, and st.experimental_rerun() runs
\* the script again from the top with the widgets as they are.
ClickClear(s, out1, out2) ==
    /\ pc[s] = "idle"
    /\ CanRun(widget_file[s], 2)
    /\ LET r1 == ImageSection(s, widget_file[s], session_state[s],
                              fs, next_tmp, out1) IN
       IF r1.raised
       THEN EndRun(s, r1, FALSE) /\ UNCHANGED last_run
       ELSE /\ EndRun(s, ImageSection(s, widget_file[s], ClearKeys(r1.ss),
                                      r1.files, r1.tmp, out2), FALSE)
            /\ last_run' = [last_run EXCEPT ![s] = NoRun]
    /\ UNCHANGED <<active, widget_file, pc, frame>>

----------------------------------------------------------------------------
(* process_inputs, one external call per step *)

\* the log of the external calls of a run: function, its two arguments, and
\* what it returned (Raise when it raised)
Call(f, fn, a, b, out) ==
    [f EXCEPT !.calls = Append(f.calls, <<fn, a, b, out>>)]

\* encode_image reads the file; it fails when the file is missing
encode_image(files, path) == IF Exists(files, path) THEN "b64" ELSE Raise

\* A variant that leaves the transcript empty when transcription raises
transcribe_result_silent(out) == IF out = Raise THEN "" ELSE out

\* The transcript after the audio block: out is what transcribe_with_groq
\* returned, or Raise
transcribe_result(out) == IF out = Raise THEN ErrTranscribe ELSE out

\* The response after the try block of the image branch
analyze_result(out) == IF out = Raise THEN ErrAnalyze ELSE out

\* A variant that separates the prompt and the transcript by a blank
query_spaced(speech_to_text_output) ==
    system_prompt \o " " \o speech_to_text_output

\* The query sent to the vision model
query(speech_to_text_output) == system_prompt \o speech_to_text_output

\* A variant that tests only that the response is non-empty
should_synthesize_any(doctor_response) == Truthy(doctor_response)

\* A variant that treats the analysis placeholder like the sentinel
should_synthesize_real(doctor_response) ==
    /\ Truthy(doctor_response)
    /\ doctor_response \notin {NoImage, ErrAnalyze}

\* The test that guards the voice block
should_synthesize(doctor_response) ==
    Truthy(doctor_response) /\ doctor_response # NoImage

\* The audio block: transcription is attempted when the path is set and the
\* file exists; its exception is replaced by a placeholder.
Transcribe(s) ==
    /\ pc[s] = "transcribe"
    /\ LET f == frame[s] IN
       IF Truthy(f.audio_filepath) /\ Exists(fs, f.audio_filepath)
       THEN \E out \in Transcripts \cup {Raise} :
              frame' = [frame EXCEPT ![s] =
                  [Call(f, "transcribe_with_groq", f.audio_filepath, stt_model,
                        out)
                     EXCEPT !.speech_to_text_output = transcribe_result(out),
                            !.audio_present = TRUE]]
       ELSE frame' = frame
    /\ pc' = [pc EXCEPT ![s] = "analyze"]
    /\ UNCHANGED <<active, session_state, widget_file, fs, next_tmp,
                   rendered, crashed, last_run>>

\* The image block: the vision query is sent when the path is set and the
\* file exists; otherwise the response is the fixed sentinel.
AnalyzeImage(s) ==
    /\ pc[s] = "analyze"
    /\ LET f == frame[s] IN
       IF Truthy(f.image_filepath) /\ Exists(fs, f.image_filepath)
       THEN IF encode_image(fs, f.image_filepath) = Raise
            THEN frame' = [frame EXCEPT ![s] =
                     [f EXCEPT !.doctor_response = analyze_result(Raise),
                               !.image_present = TRUE]]
            ELSE \E out \in Replies \cup {Raise} :
                   frame' = [frame EXCEPT ![s] =
                     [Call(f, "analyze_image_with_query",
                           query(f.speech_to_text_output), vision_model, out)
                        EXCEPT !.doctor_response = analyze_result(out),
                               !.image_present = TRUE]]
       ELSE frame' = [frame EXCEPT ![s] = [f EXCEPT !.doctor_response = NoImage]]
    /\ pc' = [pc EXCEPT ![s] = "synth"]
    /\ UNCHANGED <<active, session_state, widget_file, fs, next_tmp,
                   rendered, crashed, last_run>>

\* A variant that tries the fallback provider after the primary in any case
SynthPrimary_AlwaysFallback(s, ok) ==
    /\ pc[s] = "synth"
    /\ LET f == frame[s] IN
       IF should_synthesize(f.doctor_response)
       THEN /\ frame' = [frame EXCEPT ![s] =
                 [Call(f, "text_to_speech_with_elevenlabs", f.doctor_response,
                       VoiceFile, IF ok THEN None ELSE Raise)
                    EXCEPT !.voice_filepath = VoiceFile]]
            /\ fs' = IF ok THEN WriteFile(fs, VoiceFile, s) ELSE fs
            /\ pc' = [pc EXCEPT ![s] = "fallback"]
       ELSE /\ frame' = frame
            /\ fs' = fs
            /\ pc' = [pc EXCEPT ![s] = "store"]
    /\ UNCHANGED <<active, session_state, widget_file, next_tmp,
                   rendered, crashed, last_run>>

\* The voice block, primary provider: on success the file is written at the
\* fixed path; on failure the fallback is tried next.
SynthPrimary(s, ok) ==
    /\ pc[s] = "synth"
    /\ LET f == frame[s] IN
       IF should_synthesize(f.doctor_response)
       THEN /\ frame' = [frame EXCEPT ![s] =
                 [Call(f, "text_to_speech_with_elevenlabs", f.doctor_response,
                       VoiceFile, IF ok THEN None ELSE Raise)
                    EXCEPT !.voice_filepath = VoiceFile]]
            /\ IF ok
               THEN /\ fs' = WriteFile(fs, VoiceFile, s)
                    /\ pc' = [pc EXCEPT ![s] = "store"]
               ELSE /\ fs' = fs
                    /\ pc' = [pc EXCEPT ![s] = "fallback"]
       ELSE /\ frame' = frame
            /\ fs' = fs
            /\ pc' = [pc EXCEPT ![s] = "store"]
    /\ UNCHANGED <<active, session_state, widget_file, next_tmp,
                   rendered, crashed, last_run>>

\* A variant that keeps the output path when the fallback raises too
SynthFallback_KeepPath(s, ok) ==
    /\ pc[s] = "fallback"
    /\ LET f == Call(frame[s], "text_to_speech_with_gtts",
                     frame[s].doctor_response, frame[s].voice_filepath,
                     IF ok THEN None ELSE Raise) IN
       /\ fs' = IF ok THEN WriteFile(fs, f.voice_filepath, s) ELSE fs
       /\ frame' = [frame EXCEPT ![s] = f]
    /\ pc' = [pc EXCEPT ![s] = "store"]
    /\ UNCHANGED <<active, session_state, widget_file, next_tmp,
                   rendered, crashed, last_run>>

\* A variant in which an error of the fallback provider is not caught: it
\* leaves process_inputs and ends the script run
SynthFallback_Uncaught(s, ok) ==
    /\ pc[s] = "fallback"
    /\ IF ok
       THEN /\ fs' = WriteFile(fs, frame[s].voice_filepath, s)
            /\ frame' = [frame EXCEPT ![s] =
                  Call(frame[s], "text_to_speech_with_gtts",
                       frame[s].doctor_response, frame[s].voice_filepath, None)]
            /\ pc' = [pc EXCEPT ![s] = "store"]
            /\ UNCHANGED <<rendered, crashed>>
       ELSE /\ fs' = fs
            /\ frame' = [frame EXCEPT ![s] = EmptyFrame]
            /\ pc' = [pc EXCEPT ![s] = "idle"]
            /\ rendered' = [rendered EXCEPT ![s] = Blank]
            /\ crashed' = [crashed EXCEPT ![s] = TRUE]
    /\ UNCHANGED <<active, session_state, widget_file, next_tmp, last_run>>

\* The voice block, fallback provider: same text and path; when it raises
\* too the path is reset to None.
SynthFallback(s, ok) ==
    /\ pc[s] = "fallback"
    /\ LET f == Call(frame[s], "text_to_speech_with_gtts",
                     frame[s].doctor_response, frame[s].voice_filepath,
                     IF ok THEN None ELSE Raise) IN
       IF ok
       THEN /\ fs' = WriteFile(fs, f.voice_filepath, s)
            /\ frame' = [frame EXCEPT ![s] = f]
       ELSE /\ fs' = fs
            /\ frame' = [frame EXCEPT ![s] = [f EXCEPT !.voice_filepath = None]]
    /\ pc' = [pc EXCEPT ![s] = "store"]
    /\ UNCHANGED <<active, session_state, widget_file, next_tmp,
                   rendered, crashed, last_run>>

\* The triple process_inputs returns
Returned(f) == <<f.speech_to_text_output, f.doctor_response, f.voice_filepath>>

\* A variant that stores the audio path only when there is one
StoreTriple_KeepVoice(ss, t) ==
    LET st == Set(Set(ss, "speech_to_text", t[1]), "doctor_response", t[2]) IN
    IF t[3] = None /\ "voice_filepath" \in DOMAIN ss
    THEN st
    ELSE Set(st, "voice_filepath", t[3])

\* The three assignments that store the returned triple
StoreTriple(ss, t) ==
    Set(Set(Set(ss, "speech_to_text", t[1]), "doctor_response", t[2]),
        "voice_filepath", t[3])

\* process_inputs returns; main stores the triple and renders the results.
StoreResults(s) ==
    /\ pc[s] = "store"
    /\ LET ss == StoreTriple(session_state[s], Returned(frame[s])) IN
       /\ session_state' = [session_state EXCEPT ![s] = ss]
       /\ rendered' = [rendered EXCEPT ![s] = Render(ss, fs, FALSE)]
    /\ last_run' = [last_run EXCEPT ![s] = Returned(frame[s])]
    /\ crashed' = [crashed EXCEPT ![s] = FALSE]
    /\ frame' = [frame EXCEPT ![s] = EmptyFrame]
    /\ pc' = [pc EXCEPT ![s] = "idle"]
    /\ UNCHANGED <<active, widget_file, fs, next_tmp>>

----------------------------------------------------------------------------
(* Environment *)

\* Files are never deleted by the application.  The user may remove the two
\* files of the working directory, and the operating system cleans the
\* temporary directory by age, oldest file first.
Deletable(files) ==
    {p \in DOMAIN files :
        \/ p \in {RecordedFile, VoiceFile}
        \/ \E n \in 1..next_tmp :
              /\ p = TmpName(n)
              /\ \A k \in 1..(n - 1) : ~Exists(files, TmpName(k))}

OSCleanup(path) ==
    /\ path \in Deletable(fs)
    /\ fs' = [p \in DOMAIN fs \ {path} |-> fs[p]]
    /\ UNCHANGED <<active, session_state, widget_file, next_tmp, pc,
                   frame, rendered, crashed, last_run>>

----------------------------------------------------------------------------

Next ==
    \/ \E s \in active, w \in Widgets, out \in ImageOutcomes : Upload(s, w, out)
    \/ \E s \in active : RemoveUpload(s)
    \/ \E s \in active, ok \in BOOLEAN, out \in ImageOutcomes :
            ClickRecord(s, ok, out)
    \/ \E s \in active, out \in ImageOutcomes : ClickAnalyze(s, out)
    \/ \E s \in active, out1, out2 \in ImageOutcomes : ClickClear(s, out1, out2)
    \/ \E s \in active : Transcribe(s)
    \/ \E s \in active : AnalyzeImage(s)
    \/ \E s \in active, ok \in BOOLEAN : SynthPrimary(s, ok)
    \/ \E s \in active, ok \in BOOLEAN : SynthFallback(s, ok)
    \/ \E s \in active : StoreResults(s)
    \/ \E path \in DOMAIN fs : OSCleanup(path)

Spec == Init /\ [][Next]_vars

----------------------------------------------------------------------------
(* Properties of process_inputs.  A run is observed where it returns        *)
(* (pc = "store"): frame holds the triple about to be returned and the log  *)
(* of the external calls the run made.                                      *)

Primary == "text_to_speech_with_elevenlabs"
Fallback == "text_to_speech_with_gtts"

CallsTo(f, fns) == {i \in 1..Len(f.calls) : f.calls[i][1] \in fns}

\* the run is past the image block
PastAnalyze(s) == pc[s] \in {"synth", "fallback", "store"}

\* C1: a run of process_inputs in which neither the audio file nor the image
\* file was present returns the response "No image provided for me to
\* analyze" and the audio path None, and calls neither text-to-speech provider.
C1_NoInputSentinel ==
    \A s \in active :
        (PastAnalyze(s) /\ ~frame[s].audio_present /\ ~frame[s].image_present)
        => /\ frame[s].doctor_response = "No image provided for me to analyze"
           /\ pc[s] # "fallback"
           /\ CallsTo(frame[s], {Primary, Fallback}) = {}
           /\ pc[s] = "store" => Returned(frame[s])[3] = None

C1_Witness ==
    \E s \in active :
        /\ pc[s] = "store"
        /\ ~frame[s].audio_present /\ ~frame[s].image_present
        /\ Returned(frame[s]) = <<"", NoImage, None>>

\* C2: when the primary provider raises, the fallback provider is called
\* next with the same text and the same output path; when the fallback
\* raises too the returned audio path is None; when the primary or the
\* fallback succeeds the returned audio path is the output path.  The run
\* reaches its return in every case.
C2_SynthesisFallback ==
    \A s \in active :
        LET f == frame[s] IN
        /\ pc[s] = "fallback" =>
              /\ f.calls # <<>>
              /\ f.calls[Len(f.calls)][1] = Primary
              /\ f.calls[Len(f.calls)][4] = Raise
        /\ pc[s] = "store" =>
              \A i \in CallsTo(f, {Primary}) :
                 IF f.calls[i][4] = Raise
                 THEN /\ i + 1 = Len(f.calls)
                      /\ f.calls[i + 1][1] = Fallback
                      /\ f.calls[i + 1][2] = f.calls[i][2]
                      /\ f.calls[i + 1][3] = f.calls[i][3]
                      /\ f.calls[i][2] = f.doctor_response
                      /\ IF f.calls[i + 1][4] = Raise
                         THEN Returned(f)[3] = None
                         ELSE Returned(f)[3] = f.calls[i][3]
                 ELSE /\ i = Len(f.calls)
                      /\ Returned(f)[3] = f.calls[i][3]

C2_Witness ==
    \E s \in active :
        /\ pc[s] = "store"
        /\ \E i \in CallsTo(frame[s], {Primary}) :
              /\ frame[s].calls[i][4] = Raise
              /\ frame[s].calls[i + 1][1] = Fallback
              /\ frame[s].calls[i + 1][4] = Raise
        /\ Returned(frame[s])[3] = None

\* C3: when the audio is present and transcription raises, the transcript is
\* "Error transcribing audio", and when the image is present the vision query
\* is still called, with the system prompt followed by that placeholder.
C3_TranscriptionFailure ==
    \A s \in active :
        LET f == frame[s] IN
        (/\ PastAnalyze(s)
         /\ \E i \in CallsTo(f, {"transcribe_with_groq"}) : f.calls[i][4] = Raise)
        => /\ f.audio_present
           /\ f.speech_to_text_output = "Error transcribing audio"
           /\ f.image_present =>
                 \E j \in CallsTo(f, {"analyze_image_with_query"}) :
                    f.calls[j][2] = system_prompt \o "Error transcribing audio"

C3_Witness ==
    \E s \in active :
        /\ pc[s] = "store"
        /\ \E i \in CallsTo(frame[s], {"transcribe_with_groq"}) :
              frame[s].calls[i][4] = Raise
        /\ frame[s].image_present
        /\ CallsTo(frame[s], {"analyze_image_with_query"}) # {}

\* C4: with the image present and no audio present, the prompt passed to the
\* vision query is the system prompt with nothing appended, the transcription
\* service is not called, and the returned transcript is the empty string.
C4_ImageOnlyPrompt ==
    \A s \in active :
        LET f == frame[s] IN
        (PastAnalyze(s) /\ f.image_present /\ ~f.audio_present)
        => /\ CallsTo(f, {"transcribe_with_groq"}) = {}
           /\ f.speech_to_text_output = ""
           /\ \A j \in CallsTo(f, {"analyze_image_with_query"}) :
                 f.calls[j][2] = system_prompt
           /\ CallsTo(f, {"analyze_image_with_query"}) # {}

C4_Witness ==
    \E s \in active :
        /\ pc[s] = "store"
        /\ frame[s].image_present /\ ~frame[s].audio_present
        /\ Truthy(frame[s].audio_filepath)
        /\ \E j \in CallsTo(frame[s], {"analyze_image_with_query"}) :
              frame[s].calls[j][2] = system_prompt

\* C7: synthesis is attempted exactly when the response is non-empty and is
\* not the sentinel "No image provided for me to analyze"; the placeholder
\* "Error analyzing image" is passed to the primary provider like a reply.
C7_SynthesisGuard ==
    \A s \in active :
        LET f == frame[s] IN
        pc[s] \in {"fallback", "store"} =>
           /\ (CallsTo(f, {Primary, Fallback}) # {})
                 <=> (f.doctor_response # ""
                      /\ f.doctor_response # "No image provided for me to analyze")
           /\ f.doctor_response = "Error analyzing image" =>
                 \E i \in CallsTo(f, {Primary}) :
                    f.calls[i][2] = "Error analyzing image"

C7_Witness ==
    \E s \in active :
        /\ pc[s] = "store"
        /\ frame[s].doctor_response = ErrAnalyze
        /\ \E i \in CallsTo(frame[s], {Primary}) : frame[s].calls[i][2] = ErrAnalyze

----------------------------------------------------------------------------
(* Properties of the script main() *)

CaptureKeys == {"audio_filepath", "image_filepath"}

\* a step that is a Clear Cache interaction of session s
ClearStep(s) == \E out1, out2 \in ImageOutcomes : ClickClear(s, out1, out2)

\* a step that is an Analyze interaction of session s
AnalyzeStep(s) == \E out \in ImageOutcomes : ClickAnalyze(s, out)

\* C5: no stage error leaves the request handler as an unhandled exception:
\* no script run ends with one.
C5_NoUnhandledException == \A s \in active : ~crashed[s]

\* C6: a Clear Cache interaction that runs to its end leaves the session
\* state without any key, capture references and result fields alike, also
\* when it directly follows another one.
C6_ResetEmptiesState ==
    [][\A s \in active :
         (ClearStep(s) /\ ~crashed'[s]) => session_state'[s] = EmptyState]_vars

\* C8: process_inputs runs only while the session holds an audio or an image
\* capture reference, and is called with those references; an Analyze
\* interaction of a session that holds neither shows the warning and does
\* not call process_inputs; results exist only in a session that holds a
\* capture reference.
C8_Inputs ==
    \A s \in active :
        LET ss == session_state[s]
            held == \E k \in CaptureKeys \cap DOMAIN ss : ss[k] \notin {None, ""}
        IN
        /\ pc[s] # "idle" =>
              /\ held
              /\ frame[s].audio_filepath = Get(ss, "audio_filepath")
              /\ frame[s].image_filepath = Get(ss, "image_filepath")
        /\ rendered[s].warning => (~held /\ pc[s] = "idle")
        /\ last_run[s] # NoRun => held

C8_AnalyzeGuard ==
    /\ []C8_Inputs
    /\ [][\A s \in active :
            (/\ AnalyzeStep(s)
             /\ ~crashed'[s]
             /\ CaptureKeys \cap DOMAIN session_state'[s] = {})
            => (rendered'[s].warning /\ pc'[s] = "idle")]_vars

C8_Witness ==
    \E s \in active :
        /\ rendered[s].warning
        /\ session_state[s] = EmptyState
        /\ widget_file[s] = None
        /\ DOMAIN fs # {}

\* C9: after a Clear Cache interaction that runs to its end, no file written
\* by the session before it remains on disk.
C9_ClearRemovesFiles ==
    [][\A s \in active :
         (ClearStep(s) /\ ~crashed'[s])
         => \A p \in DOMAIN fs : fs[p] = s => ~Exists(fs', p)]_vars

\* C10: the audio player and the download button are shown only if the most
\* recent run of process_inputs stored a non-null audio path and the file
\* exists when the page is rendered; a run in which both providers failed
\* is followed by a page without them, whatever earlier runs left on disk.
C10_Shown ==
    \A s \in active :
        rendered[s].audio =>
            /\ last_run[s] # NoRun
            /\ last_run[s][3] = "doctor_response.mp3"
            /\ Get(session_state[s], "voice_filepath") = last_run[s][3]

C10_Playback ==
    /\ []C10_Shown
    /\ [][\A s \in active :
            /\ (rendered'[s].audio
                  /\ (~rendered[s].audio \/ (pc[s] = "store" /\ pc'[s] = "idle")))
                  => Exists(fs', "doctor_response.mp3")
            /\ (pc[s] = "store" /\ pc'[s] = "idle"
                  /\ frame[s].voice_filepath = None)
                  => ~rendered'[s].audio]_vars

C10_Witness ==
    \E s \in active :
        /\ pc[s] = "idle"
        /\ last_run[s] # NoRun
        /\ last_run[s][2] = ErrAnalyze
        /\ last_run[s][3] = None
        /\ ~rendered[s].audio
        /\ Exists(fs, VoiceFile)
        /\ fs[VoiceFile] = s

----------------------------------------------------------------------------
(* Order and termination of a run of process_inputs *)

\* the external functions in the order of the source text
CallOrder ==
    <<"transcribe_with_groq", "analyze_image_with_query", Primary, Fallback>>

\* the position of a function in CallOrder
Rank(fn) == CHOOSE i \in 1..Len(CallOrder) : CallOrder[i] = fn

\* C11: within one run the external calls are made in the order
\* transcription, vision query, primary synthesis, fallback synthesis, each
\* at most once; the fallback provider is called only directly after the
\* primary provider raised in the same run.
C11_CallOrder ==
    \A s \in active :
        LET c == frame[s].calls IN
        /\ \A i \in 1..Len(c) : \E k \in 1..Len(CallOrder) : c[i][1] = CallOrder[k]
        /\ \A i, j \in 1..Len(c) : i < j => Rank(c[i][1]) < Rank(c[j][1])
        /\ \A j \in 1..Len(c) :
              c[j][1] = Fallback =>
                 /\ j > 1
                 /\ c[j - 1][1] = Primary
                 /\ c[j - 1][4] = Raise
        /\ pc[s] = "fallback" => c[Len(c)][4] = Raise

C11_Witness ==
    \E s \in active :
        /\ pc[s] = "store"
        /\ Len(frame[s].calls) = 4
        /\ frame[s].calls[4][1] = Fallback

\* One step of the run of process_inputs of session s
RunStep(s) ==
    \/ Transcribe(s)
    \/ AnalyzeImage(s)
    \/ \E ok \in BOOLEAN : SynthPrimary(s, ok)
    \/ \E ok \in BOOLEAN : SynthFallback(s, ok)
    \/ StoreResults(s)

\* The states in which a session's first call of process_inputs starts: the
\* session holds a recording, a saved image or both, the image widget holds
\* no file any more, and each captured file is still on disk or was removed.
RunInit ==
    /\ active = {1}
    /\ \E a \in {None, RecordedFile}, i \in {None, TmpName(1)} :
          /\ a # None \/ i # None
          /\ LET ssa == IF a = None THEN EmptyState
                        ELSE Set(EmptyState, "audio_filepath", a)
                 ss  == IF i = None THEN ssa ELSE Set(ssa, "image_filepath", i)
             IN
             /\ session_state = [s \in SessionIds |->
                                   IF s = 1 THEN ss ELSE EmptyState]
             /\ frame = [s \in SessionIds |->
                   IF s = 1
                   THEN [EmptyFrame EXCEPT !.audio_filepath = a,
                                           !.image_filepath = i]
                   ELSE EmptyFrame]
          /\ next_tmp = IF i = None THEN 0 ELSE 1
          /\ \E files \in SUBSET ({a, i} \ {None}) : fs = [p \in files |-> 1]
    /\ widget_file = [s \in SessionIds |-> None]
    /\ pc = [s \in SessionIds |-> IF s = 1 THEN "transcribe" ELSE "idle"]
    /\ rendered = [s \in SessionIds |-> Blank]
    /\ crashed = [s \in SessionIds |-> FALSE]
    /\ last_run = [s \in SessionIds |-> NoRun]

\* The run of process_inputs alone, with the environment
RunNext ==
    \/ \E s \in active : Transcribe(s)
    \/ \E s \in active : AnalyzeImage(s)
    \/ \E s \in active, ok \in BOOLEAN : SynthPrimary(s, ok)
    \/ \E s \in active, ok \in BOOLEAN : SynthFallback(s, ok)
    \/ \E s \in active : StoreResults(s)
    \/ \E path \in DOMAIN fs : OSCleanup(path)

\* The script is synchronous and every external call returns or raises: a
\* run that has started keeps taking its next step.
RunSpec == RunInit /\ [][RunNext]_vars /\ \A s \in SessionIds : WF_vars(RunStep(s))

\* C12: every run of process_inputs terminates: it passes the image block
\* and the voice block whatever failed before, reaches its return, and the
\* returned triple is stored.
C12_Terminates ==
    \A s \in SessionIds :
        /\ (pc[s] = "transcribe") ~> (pc[s] = "synth")
        /\ (pc[s] = "synth") ~> (pc[s] = "store")
        /\ (pc[s] = "store") ~> (pc[s] = "idle" /\ Len(last_run[s]) = 3)

C12_Witness ==
    \E s \in active :
        /\ pc[s] = "idle"
        /\ Len(last_run[s]) = 3
        /\ last_run[s][1] = ErrTranscribe
        /\ last_run[s][2] = ErrAnalyze
        /\ last_run[s][3] = None

----------------------------------------------------------------------------
(* Two sessions on one file system *)

TwoInit == active = {1, 2} /\ InitCommon

\* no external call of the run has raised
NoFault(f) == \A i \in 1..Len(f.calls) : f.calls[i][4] \notin {Raise, ""}

\* Two sessions whose captures succeed and whose services answer; their
\* script runs and the steps of their process_inputs calls interleave.
TwoNext ==
    \/ \E s \in active : Upload(s, "uploaded_image", "saved")
    \/ \E s \in active : RemoveUpload(s)
    \/ \E s \in active : ClickRecord(s, TRUE, "saved")
    \/ \E s \in active : ClickAnalyze(s, "saved")
    \/ \E s \in active : Transcribe(s) /\ NoFault(frame'[s])
    \/ \E s \in active : AnalyzeImage(s) /\ NoFault(frame'[s])
    \/ \E s \in active, ok \in BOOLEAN : SynthPrimary(s, ok)
    \/ \E s \in active : SynthFallback(s, TRUE)
    \/ \E s \in active : StoreResults(s)
    \/ \E s \in active : ClickClear(s, "saved", "saved")

TwoSpec == TwoInit /\ [][TwoNext]_vars

\* the files the session state of s refers to
Referred(s) ==
    {session_state[s][k] :
        k \in DOMAIN session_state[s] \cap
              {"audio_filepath", "image_filepath", "voice_filepath"}} \ {None}

\* C13: a saved image a session refers to was written by that session and no
\* other session refers to it; a file a session refers to whose content
\* another session wrote is one of the two fixed names, recorded_audio.mp3
\* and doctor_response.mp3 (the collision itself is the state C13_Witness).
C13_ImagesNeverCollide ==
    \A s \in active :
        /\ \A p \in Referred(s) :
              (Exists(fs, p) /\ fs[p] # s)
                 => p \in {"recorded_audio.mp3", "doctor_response.mp3"}
        /\ "image_filepath" \in DOMAIN session_state[s] =>
              \A o \in active \ {s} :
                 session_state[s]["image_filepath"] \notin Referred(o)

C13_Witness ==
    \E s \in active, o \in active :
        /\ o # s
        /\ Get(session_state[s], "voice_filepath") = VoiceFile
        /\ Exists(fs, VoiceFile) /\ fs[VoiceFile] = o
        /\ Get(session_state[s], "audio_filepath") = RecordedFile
        /\ Exists(fs, RecordedFile) /\ fs[RecordedFile] = o
        /\ "image_filepath" \in DOMAIN session_state[s]
        /\ "image_filepath" \in DOMAIN session_state[o]

----------------------------------------------------------------------------
(* The result fields and the capture references of the session state *)

ResultKeys == {"speech_to_text", "doctor_response", "voice_filepath"}

\* the result fields a session state holds
Results(ss) == [k \in ResultKeys \cap DOMAIN ss |-> ss[k]]

\* C14: the three result fields are all absent, or all present and equal to
\* the triple returned by the most recent call of process_inputs since the
\* last reset; they change only when a run stores its triple or in a Clear
\* Cache interaction, so a rejected Analyze and every capture leave them.
C14_ResultsMatch ==
    \A s \in active :
        LET ss == session_state[s] IN
        \/ ResultKeys \cap DOMAIN ss = {} /\ last_run[s] = NoRun
        \/ /\ ResultKeys \subseteq DOMAIN ss
           /\ last_run[s] =
                 <<ss["speech_to_text"], ss["doctor_response"], ss["voice_filepath"]>>

C14_Results ==
    /\ []C14_ResultsMatch
    /\ [][\A s \in active :
            Results(session_state'[s]) # Results(session_state[s])
               => \/ pc[s] = "store" /\ pc'[s] = "idle"
                  \/ ClearStep(s) /\ Results(session_state'[s]) = Results(EmptyState)]_vars

C14_Witness ==
    \E s \in active :
        /\ pc[s] = "idle"
        /\ ResultKeys \subseteq DOMAIN session_state[s]
        /\ last_run[s] = <<"my skin itches", NoImage, None>>
        /\ "image_filepath" \in DOMAIN session_state[s]
        /\ Exists(fs, session_state[s]["image_filepath"])

\* a step that is a Start Recording interaction of s in which record_audio
\* raised
RecordFailStep(s) == \E out \in ImageOutcomes : ClickRecord(s, FALSE, out)

\* C15 as stated: a recording interaction in which record_audio raises
\* leaves the session state unchanged.
C15_FailedRecordingKeepsState ==
    [][\A s \in active :
         RecordFailStep(s) => session_state'[s] = session_state[s]]_vars

\* C15, amended: a recording interaction in which record_audio raises leaves
\* the audio capture reference and the result fields unchanged, every key
\* but image_filepath in fact, and a later Analyze passes that reference to
\* process_inputs.
C15_FailedRecordingKeepsAudio ==
    /\ [][\A s \in active :
            RecordFailStep(s) =>
               /\ DOMAIN session_state'[s] \ {"image_filepath"}
                     = DOMAIN session_state[s] \ {"image_filepath"}
               /\ \A k \in DOMAIN session_state[s] \ {"image_filepath"} :
                     session_state'[s][k] = session_state[s][k]]_vars
    /\ [][\A s \in active :
            (AnalyzeStep(s) /\ pc'[s] = "transcribe") =>
               frame'[s].audio_filepath = Get(session_state[s], "audio_filepath")]_vars

C15_Witness ==
    \E s \in active :
        /\ rendered[s].record_error
        /\ ~crashed[s]
        /\ Get(session_state[s], "audio_filepath") = RecordedFile
        /\ widget_file[s] # None
        /\ Get(session_state[s], "image_filepath") = TmpName(2)

\* C16: the audio path process_inputs returns is None or
\* "doctor_response.mp3", and it is not None only if in the same run the
\* primary or the fallback provider returned without raising for the
\* returned response text and that path; the stored triple obeys the same.
C16_AudioPath ==
    \A s \in active :
        LET f == frame[s] IN
        /\ pc[s] = "store" =>
              /\ Returned(f)[3] \in {None, "doctor_response.mp3"}
              /\ Returned(f)[3] # None =>
                    \E i \in CallsTo(f, {Primary, Fallback}) :
                       /\ f.calls[i][4] # Raise
                       /\ f.calls[i][2] = Returned(f)[2]
                       /\ f.calls[i][3] = Returned(f)[3]
        /\ last_run[s] # NoRun => last_run[s][3] \in {None, "doctor_response.mp3"}

C16_Witness ==
    \E s \in active :
        /\ pc[s] = "store"
        /\ Returned(frame[s])[3] = VoiceFile
        /\ \E i \in CallsTo(frame[s], {Fallback}) : frame[s].calls[i][4] # Raise

====
